---- MODULE Spec2Model ----
(***************************************************************************)
(* Model of the Telecom Ingest API (src/main.py): the ingest, search,      *)
(* delete and reset handlers over the two Qdrant collections, and the      *)
(* analyze_query classifier.                                               *)
(*                                                                         *)
(* Text is modelled as a sequence of one-character strings, so substring   *)
(* tests, replace, strip and lower are computed as Python computes them.   *)
(***************************************************************************)
EXTENDS Integers, Sequences, FiniteSets, TLC

VARIABLES
    HAS_LLAMAINDEX,  \* the import-time flag of main.py
    exists,          \* collection name -> does the collection exist in Qdrant
    points,          \* collection name -> set of stored points (id + payload)
    nextId,          \* number of uuid4 point ids drawn so far
    nextGroup,       \* number of uuid4 group ids drawn so far
    started,         \* number of ingest requests accepted so far
    dirs,            \* group ids whose /tmp/ingest_<group_id> directory exists
    fs,              \* files below the /tmp/ingest_* directories
    calls,           \* request slot -> state of the ingest request running in it
    redis,           \* does the Redis database hold session keys
    last             \* what the handler step that ran last did and returned

vars == <<HAS_LLAMAINDEX, exists, points, nextId, nextGroup, started, dirs, fs,
          calls, redis, last>>

(***************************************************************************)
(* Bounds of the model                                                     *)
(***************************************************************************)
MaxCalls == 2      \* ingest requests in flight at once
MaxIngests == 2    \* ingest requests accepted in one behaviour
MaxNodes == 1      \* nodes, objects or chunks one parsed file yields
MaxPoints == 3     \* points ever written to the store
MaxLimit == 2      \* largest `limit` a search request carries
MaxPieces == 3     \* pieces a query text is made of

(***************************************************************************)
(* Python str operations on sequences of characters                        *)
(***************************************************************************)
Min(a, b) == IF a < b THEN a ELSE b
Max(a, b) == IF a > b THEN a ELSE b

\* s[i:] of Python, 0-based i
Drop(s, n) == SubSeq(s, n + 1, Len(s))

StartsWith(s, t) == Len(t) <= Len(s) /\ SubSeq(s, 1, Len(t)) = t

\* `t in s`
Contains(s, t) == \E i \in 0..(Len(s) - Len(t)) : SubSeq(s, i + 1, i + Len(t)) = t

\* s.replace(t, ""): one left-to-right pass over non-overlapping occurrences
RECURSIVE Remove(_, _)
Remove(s, t) ==
    IF s = <<>> THEN <<>>
    ELSE IF StartsWith(s, t) THEN Remove(Drop(s, Len(t)), t)
    ELSE <<Head(s)>> \o Remove(Tail(s), t)

\* s.replace("  ", " ")
RECURSIVE ReplaceDoubleSpace(_)
ReplaceDoubleSpace(s) ==
    IF s = <<>> THEN <<>>
    ELSE IF StartsWith(s, <<" ", " ">>) THEN <<" ">> \o ReplaceDoubleSpace(Drop(s, 2))
    ELSE <<Head(s)>> \o ReplaceDoubleSpace(Tail(s))

IsSpace(c) == c \in {" ", "\n", "\t"}

RECURSIVE LStrip(_)
LStrip(s) == IF s # <<>> /\ IsSpace(Head(s)) THEN LStrip(Tail(s)) ELSE s

RECURSIVE RStrip(_)
RStrip(s) ==
    IF s # <<>> /\ IsSpace(s[Len(s)]) THEN RStrip(SubSeq(s, 1, Len(s) - 1)) ELSE s

\* s.strip()
Strip(s) == RStrip(LStrip(s))

UpperCase == <<"A", "B", "C", "D", "E", "F", "G", "H", "I", "J", "K", "L", "M",
               "N", "O", "P", "Q", "R", "S", "T", "U", "V", "W", "X", "Y", "Z">>
LowerCase == <<"a", "b", "c", "d", "e", "f", "g", "h", "i", "j", "k", "l", "m",
               "n", "o", "p", "q", "r", "s", "t", "u", "v", "w", "x", "y", "z">>

LowerChar(c) ==
    IF \E i \in 1..26 : UpperCase[i] = c
    THEN LowerCase[CHOOSE i \in 1..26 : UpperCase[i] = c]
    ELSE c

\* s.lower()
Lower(s) == [i \in 1..Len(s) |-> LowerChar(s[i])]

RECURSIVE Concat(_)
Concat(ss) == IF ss = <<>> THEN <<>> ELSE Head(ss) \o Concat(Tail(ss))

\* s.split(sep) for a one-character separator
RECURSIVE Split(_, _)
Split(s, sep) ==
    IF \A i \in 1..Len(s) : s[i] # sep THEN <<s>>
    ELSE LET k == CHOOSE i \in 1..Len(s) : s[i] = sep /\ \A j \in 1..(i - 1) : s[j] # sep
         IN <<SubSeq(s, 1, k - 1)>> \o Split(Drop(s, k), sep)

SeqsUpTo(S, n) == UNION {[1..k -> S] : k \in 0..n}

Range(s) == {s[i] : i \in 1..Len(s)}

EndsWith(s, t) == Len(t) <= Len(s) /\ SubSeq(s, Len(s) - Len(t) + 1, Len(s)) = t

(***************************************************************************)
(* Configuration and the external collaborators' value sets                *)
(***************************************************************************)
COLLECTION_NAME == "telecom_collection_v2"
TABLES_COLLECTION_NAME == "telecom_tables_v2"
Collections == {COLLECTION_NAME, TABLES_COLLECTION_NAME}

TEXT_RECALL_LIMIT == 200    \* limit= of the text collection query
TABLE_RECALL_LIMIT == 100   \* limit= of the tables collection query

None == <<"None">>

\* group ids: a caller's package_id, or a uuid4 drawn by ingest_package
PackageIds == {<<"pkg", 1>>}
Uuid4(n) == <<"uuid", n>>
GroupIds == PackageIds \cup {Uuid4(n) : n \in 1..MaxIngests}

\* texts a parsed node, table object or chunk can carry
BlankText == <<" ">>
ProseText == <<"a">>
PipeText == <<"a", "|", "b">>
TableText == <<"|", "-", "-", "-", "|">>
RuleText == <<"|", " ", "=", "=", "=">>

NodeTexts == {BlankText, ProseText}
ObjectTexts == {BlankText, TableText}
ChunkTexts == {BlankText, ProseText, PipeText, TableText, RuleText}

\* uploaded file names and the member names of an uploaded archive
PlainName == <<"a">>
ZipName == <<"p", ".", "Z", "I", "P">>
HiddenName == <<".", "h">>
MemberNames == {<<"a">>, <<"b">>, HiddenName}

Idle == [pc |-> "idle"]

(***************************************************************************)
(* The vector store (Qdrant client calls made by main.py)                  *)
(***************************************************************************)
\* client.upsert(collection_name=coll, points=pts): the collection comes to
\* exist with the first write
Upsert(store, coll, pts) ==
    [exists |-> [store.exists EXCEPT ![coll] = TRUE],
     points |-> [store.points EXCEPT ![coll] = @ \cup pts]]

\* client.delete(collection_name=coll, points_selector=Filter(group_id == target))
DeleteByGroup(store, coll, target) ==
    [store EXCEPT !.points[coll] = {p \in @ : p.group_id # target}]

\* client.delete_collection(coll)
DeleteCollection(store, coll) ==
    [exists |-> [store.exists EXCEPT ![coll] = FALSE],
     points |-> [store.points EXCEPT ![coll] = {}]]

\* client.query_points(collection_name=coll, limit=width).points: any `width`
\* of the stored points when more are stored, all of them otherwise
QueryPoints(store, coll, width) ==
    IF Cardinality(store.points[coll]) <= width
    THEN {store.points[coll]}
    ELSE {S \in SUBSET store.points[coll] : Cardinality(S) = width}

Store == [exists |-> exists, points |-> points]

(***************************************************************************)
(* Ingest: one parsed file (process_document_with_element_parser)          *)
(***************************************************************************)
\* the payload of one PointStruct; is_table is "absent" where the key is not set
Payload(text, kind, i, flag, group_id, filename, source_package) ==
    [document |-> text, group_id |-> group_id, filename |-> filename,
     chunk_type |-> kind, index |-> i, source_package |-> source_package,
     is_table |-> flag]

NotBlank(p) == Strip(p.document) # <<>>

\* points_to_upload of _process_with_element_parser
ElementPayloads(base_nodes, objects, group_id, filename, source_package) ==
    LET texts == [i \in 1..Len(base_nodes) |->
                    Payload(base_nodes[i], "text", i - 1, "absent",
                            group_id, filename, source_package)]
        tables == [i \in 1..Len(objects) |->
                    Payload(objects[i], "table", i - 1, "True",
                            group_id, filename, source_package)]
    IN SelectSeq(texts, NotBlank) \o SelectSeq(tables, NotBlank)

\* is_table of _process_with_fallback
IsTableChunk_AnyPipe(chunk) == Contains(chunk, <<"|">>)
IsTableChunk(chunk) ==
    Contains(chunk, <<"|">>)
    /\ (Contains(chunk, <<"|", "-", "-", "-">>) \/ Contains(chunk, <<"|", " ", "=", "=", "=">>))

\* points_to_upload of _process_with_fallback
FallbackPayloads(chunks, group_id, filename, source_package) ==
    LET all == [i \in 1..Len(chunks) |->
                  Payload(chunks[i], IF IsTableChunk(chunks[i]) THEN "table" ELSE "text",
                          i - 1, IF IsTableChunk(chunks[i]) THEN "True" ELSE "False",
                          group_id, filename, source_package)]
    IN SelectSeq(all, NotBlank)

HasPipe(c) == Contains(c, <<"|">>)
NoPipe(c) == ~Contains(c, <<"|">>)

\* The collection a batch of points_to_upload is written to
UpsertTarget(payloads) == COLLECTION_NAME

\* _process_with_fallback.  ext.chunks is what the splitter returns and
\* ext.upsert2 whether the store takes the write.  The outcome is the dict
\* returned (or raised |-> TRUE with the store's message), the batch written
\* and whether an upsert was refused on the way.
ProcessWithFallback(ext, group_id, filename, source_package) ==
    LET pts == FallbackPayloads(ext.chunks, group_id, filename, source_package)
    IN IF pts # <<>> /\ ~ext.upsert2
       THEN [raised |-> TRUE, error |-> "store error", batch |-> <<>>,
             upsert_failed |-> TRUE]
       ELSE [raised |-> FALSE,
             result |-> [success |-> TRUE,
                         text_nodes |-> Len(SelectSeq(ext.chunks, NoPipe)),
                         table_objects |-> Len(SelectSeq(ext.chunks, HasPipe)),
                         total_chunks |-> Len(pts),
                         mode |-> "fallback"],
             batch |-> pts, upsert_failed |-> FALSE]

\* _process_with_element_parser.  ext.structural is "raise" or the pair the
\* node parser returns, ext.upsert1 whether the store takes the write.
ProcessWithElementParser(ext, group_id, filename, source_package) ==
    IF ext.structural = "raise"
    THEN ProcessWithFallback(ext, group_id, filename, source_package)
    ELSE LET pts == ElementPayloads(ext.base_nodes, ext.objects,
                                    group_id, filename, source_package)
         IN IF pts # <<>> /\ ~ext.upsert1
            THEN [ProcessWithFallback(ext, group_id, filename, source_package)
                     EXCEPT !.upsert_failed = TRUE]
            ELSE [raised |-> FALSE,
                  result |-> [success |-> TRUE,
                              text_nodes |-> Len(ext.base_nodes),
                              table_objects |-> Len(ext.objects),
                              total_chunks |-> Len(pts),
                              mode |-> "element_parser"],
                  batch |-> pts, upsert_failed |-> FALSE]

\* process_document_with_element_parser.  ext.parse is "raise", "empty" or "ok"
\* (LlamaParse); llama is HAS_LLAMAINDEX.
ProcessDocument(ext, llama, group_id, filename, source_package) ==
    IF ext.parse = "raise"
    THEN [result |-> [success |-> FALSE, error |-> "parse error"], batch |-> <<>>,
          upsert_failed |-> FALSE]
    ELSE IF ext.parse = "empty"
    THEN [result |-> [success |-> FALSE, error |-> "No documents parsed"], batch |-> <<>>,
          upsert_failed |-> FALSE]
    ELSE LET r == IF llama
                  THEN ProcessWithElementParser(ext, group_id, filename, source_package)
                  ELSE ProcessWithFallback(ext, group_id, filename, source_package)
         IN IF r.raised
            THEN [result |-> [success |-> FALSE, error |-> r.error], batch |-> <<>>,
                  upsert_failed |-> TRUE]
            ELSE [result |-> r.result, batch |-> r.batch,
                  upsert_failed |-> r.upsert_failed]

\* how structural mode ended for a parsed file: not run ("unused"), raised,
\* returned neither node nor object ("empty"), or returned some ("ok")
Structural(ext) ==
    IF ext.parse # "ok" THEN "unused"
    ELSE IF ext.structural # "ok" THEN ext.structural
    ELSE IF ext.base_nodes \o ext.objects = <<>> THEN "empty"
    ELSE "ok"

AllBlank(texts) == \A i \in 1..Len(texts) : Strip(texts[i]) = <<>>

\* What the external collaborators can answer while one file is processed:
\* LlamaParse, the node parser (when imported), the splitter and the store.
\* An answer is listed only where the code asks for it: upsert is not called
\* with nothing to upload, and the splitter only runs in fallback mode.
FallbackOutcomes(structural) ==
    {e \in [parse : {"ok"}, structural : structural,
            chunks : SeqsUpTo(ChunkTexts, MaxNodes), upsert2 : BOOLEAN] :
        AllBlank(e.chunks) => e.upsert2}

ElementOutcomes ==
    {e \in [parse : {"ok"}, structural : {"ok"},
            base_nodes : SeqsUpTo(NodeTexts, MaxNodes),
            objects : SeqsUpTo(ObjectTexts, MaxNodes),
            upsert1 : BOOLEAN,
            chunks : SeqsUpTo(ChunkTexts, MaxNodes), upsert2 : BOOLEAN] :
        /\ AllBlank(e.base_nodes \o e.objects) => e.upsert1
        /\ e.upsert1 => (e.chunks = <<>> /\ e.upsert2)
        /\ AllBlank(e.chunks) => e.upsert2}

ExtOutcomes(llama) ==
    { [parse |-> "raise"], [parse |-> "empty"] }
    \cup (IF llama
          THEN FallbackOutcomes({"raise"}) \cup ElementOutcomes
          ELSE FallbackOutcomes({"unused"}))

\* The answers drawn where ingest runs beside search, delete and reset: the
\* store takes every write
ServiceOutcomes(llama) ==
    {e \in ExtOutcomes(llama) :
        e.parse = "ok" =>
            /\ e.upsert2
            /\ e.structural = "ok" => e.upsert1}

(***************************************************************************)
(* Ingest: the request (ingest_package)                                    *)
(***************************************************************************)
UploadPath(group_id, filename) == <<group_id, "upload", filename>>
ExtractedPath(group_id, fname) == <<group_id, "extracted", fname>>
Basename(path) == path[3]

\* shutil.rmtree(base_tmp_dir)
RmTree(files, group_id) == {f \in files : f[1] # group_id}

\* file.filename.lower().endswith(".zip")
IsZip(filename) == EndsWith(Lower(filename), <<".", "z", "i", "p">>)

\* the names os.walk(extract_dir) yields, less the hidden ones
Walked(files, group_id) ==
    {f \in files : f[1] = group_id /\ f[2] = "extracted" /\ ~StartsWith(f[3], <<".">>)}

Orders(S) == {q \in [1..Cardinality(S) -> S] : Range(q) = S}

FileEntry(fname, result) ==
    IF result.success
    THEN [filename |-> fname, status |-> "success",
          text_nodes |-> result.text_nodes, table_objects |-> result.table_objects]
    ELSE [filename |-> fname, status |-> "failed", error |-> result.error]

\* the dict ingest_package returns once the loop over files_to_process ends
IngestResponse(call) ==
    LET total_chunks == call.total_text_nodes + call.total_table_objects
    IN IF total_chunks = 0
       THEN [status |-> "error", msg |-> "No documents parsed successfully.",
             processed_files |-> call.processed_files]
       ELSE [status |-> "success", group_id |-> call.group_id,
             total_text_nodes |-> call.total_text_nodes,
             total_table_objects |-> call.total_table_objects,
             total_chunks |-> total_chunks,
             processed_files |-> call.processed_files]

HttpError(detail) == [status |-> "http500", detail |-> detail]

\* ingest_package up to `await file.read()` (LLAMA_CLOUD_API_KEY is set)
IngestStart(c, package_id, upload) ==
    /\ calls[c].pc = "idle"
    /\ \A d \in 1..(c - 1) : calls[d].pc # "idle"   \* slots are taken in order
    /\ started < MaxIngests
    /\ LET group_id == IF package_id # None THEN package_id ELSE Uuid4(nextGroup + 1)
       IN /\ nextGroup' = IF package_id # None THEN nextGroup ELSE nextGroup + 1
          /\ dirs' = dirs \cup {group_id}
          /\ calls' = [calls EXCEPT ![c] =
                 [pc |-> "read", group_id |-> group_id, upload |-> upload,
                  files |-> <<>>, readable |-> FALSE,
                  total_text_nodes |-> 0, total_table_objects |-> 0,
                  processed_files |-> <<>>, trace |-> <<>>]]
          /\ last' = [op |-> "ingest", call |-> c, done |-> FALSE]
    /\ started' = started + 1
    /\ UNCHANGED <<HAS_LLAMAINDEX, exists, points, nextId, fs, redis>>

\* the request ends: the response is returned (or the HTTPException raised) and
\* the `finally` removes base_tmp_dir
IngestEnd(c, response, call) ==
    /\ calls' = [calls EXCEPT ![c] = Idle]
    /\ dirs' = dirs \ {call.group_id}
    /\ last' = [op |-> "ingest", call |-> c, done |-> TRUE, response |-> response,
                group_id |-> call.group_id, files |-> call.files,
                trace |-> call.trace]

\* files_to_process: the uploaded file itself, or what os.walk lists below the
\* directory the archive was extracted to (in the order the directory gives)
FilesToProcess(files, group_id, filename) ==
    IF IsZip(filename)
    THEN Orders(Walked(files, group_id))
    ELSE {<<UploadPath(group_id, filename)>>}

\* from the upload's bytes being read to the first `await parser.aload_data`
IngestRead(c, zipOk) ==
    LET call == calls[c]
        g == call.group_id
        written == fs \cup {UploadPath(g, call.upload.filename)}
        extracted == IF IsZip(call.upload.filename)
                     THEN written \cup {ExtractedPath(g, m) : m \in call.upload.members}
                     ELSE written
    IN
    /\ call.pc = "read"
    /\ UNCHANGED <<HAS_LLAMAINDEX, exists, points, nextId, nextGroup, started, redis>>
    /\ IF g \notin dirs
       THEN \* open(upload_path, "wb") fails: the directory is gone
            /\ zipOk
            /\ fs' = fs
            /\ IngestEnd(c, HttpError("No such file or directory"), call)
       ELSE IF IsZip(call.upload.filename) /\ ~zipOk
       THEN \* extract_zip raises
            /\ fs' = RmTree(fs, g)
            /\ IngestEnd(c, HttpError("File is not a zip file"), call)
       ELSE /\ zipOk
            /\ \E order \in FilesToProcess(extracted, g, call.upload.filename) :
                 IF order = <<>>
                 THEN /\ fs' = RmTree(fs, g)
                      /\ IngestEnd(c, IngestResponse(call), call)
                 ELSE /\ fs' = extracted
                      /\ calls' = [calls EXCEPT ![c] =
                             [call EXCEPT !.pc = "parse", !.files = order,
                                          !.readable = TRUE]]
                      /\ dirs' = dirs
                      /\ last' = [op |-> "ingest", call |-> c, done |-> FALSE]

\* `for file_path in files_to_process` is over once every file has its entry
LoopEnds_OnFailure(call) ==
    \/ Len(call.processed_files) = Len(call.files)
    \/ call.processed_files[Len(call.processed_files)].status = "failed"
LoopEnds(call) == Len(call.processed_files) = Len(call.files)

\* one turn of the loop: the awaited parse of the current file ends, the file is
\* split, its points are written and its entry recorded; after the last file the
\* response is returned
IngestFile(c, ext) ==
    LET call == calls[c]
        path == call.files[Len(call.processed_files) + 1]
        fname == Basename(path)
        out == ProcessDocument(ext, HAS_LLAMAINDEX, call.group_id, fname,
                               call.upload.filename)
        ids == (nextId + 1)..(nextId + Len(out.batch))
        new == {out.batch[i] @@ [id |-> nextId + i] :
                    i \in 1..Len(out.batch)}
        after == IF out.batch = <<>> THEN Store
                 ELSE Upsert(Store, UpsertTarget(out.batch), new)
        next == [call EXCEPT
                   !.total_text_nodes = @ + (IF out.result.success
                                             THEN out.result.text_nodes ELSE 0),
                   !.total_table_objects = @ + (IF out.result.success
                                                THEN out.result.table_objects ELSE 0),
                   !.processed_files = Append(@, FileEntry(fname, out.result)),
                   !.trace = Append(@, [parse |-> ext.parse, ids |-> ids,
                                        structural |-> Structural(ext),
                                        result |-> out.result,
                                        upsert_failed |-> out.upsert_failed,
                                        readable |-> call.readable])]
    IN
    /\ call.pc = "parse"
    /\ ~call.readable => ext.parse # "ok"
    /\ nextId + Len(out.batch) <= MaxPoints
    /\ exists' = after.exists
    /\ points' = after.points
    /\ nextId' = nextId + Len(out.batch)
    /\ IF LoopEnds(next)
       THEN /\ fs' = RmTree(fs, call.group_id)
            /\ IngestEnd(c, IngestResponse(next), next)
       ELSE /\ calls' = [calls EXCEPT ![c] =
                   [next EXCEPT !.readable =
                       call.files[Len(next.processed_files) + 1] \in fs]]
            /\ last' = [op |-> "ingest", call |-> c, done |-> FALSE]
            /\ UNCHANGED <<dirs, fs>>
    /\ UNCHANGED <<HAS_LLAMAINDEX, nextGroup, started, redis>>

(***************************************************************************)
(* Search (search_docs)                                                    *)
(***************************************************************************)
\* seq[:limit] of Python, for any integer limit
SlicePrefix_All(seq, limit) == seq
SlicePrefix(seq, limit) ==
    IF limit >= 0 THEN SubSeq(seq, 1, Min(limit, Len(seq)))
    ELSE SubSeq(seq, 1, Max(Len(seq) + limit, 0))

\* one entry of all_results
Candidate(p, source) == [id |-> p.id, text |-> p.document, meta |-> p, source |-> source]

\* one entry of the list search_docs returns
SearchHit(res) ==
    [content |-> res.text, metadata |-> res.meta,
     content_type |-> IF res.meta.is_table = "True" THEN "table" ELSE "text"]

\* the store calls search_docs makes, in order, on a store in state `store`
SearchStoreCalls(store) ==
    <<"exists_text">>
    \o (IF store.exists[COLLECTION_NAME] THEN <<"query_text">> ELSE <<>>)
    \o <<"exists_tables">>
    \o (IF store.exists[TABLES_COLLECTION_NAME] THEN <<"query_tables">> ELSE <<>>)

\* the part of `calls` made before the one named `failing` raises
Before(callSeq, failing) ==
    IF failing \in Range(callSeq)
    THEN SubSeq(callSeq, 1, (CHOOSE i \in 1..Len(callSeq) : callSeq[i] = failing) - 1)
    ELSE callSeq

\* all_results of search_docs once both collections were looked at
AllResults(store, text_results, table_results) ==
    (IF store.exists[COLLECTION_NAME]
     THEN {Candidate(p, "text") : p \in text_results} ELSE {})
    \cup
    (IF store.exists[TABLES_COLLECTION_NAME]
     THEN {Candidate(p, "table") : p \in table_results} ELSE {})

\* does search_docs hand the merged pool to the reranker
ShouldRerank_Always(all_results) == TRUE
ShouldRerank(all_results) == all_results # {}

\* search_docs.  storeOk tells whether the store answers (if not, the first
\* call made on it raises), text_results/table_results are what the two queries
\* return, ranked is the order the reranker gives the pool, rerankOk whether it
\* answers.  Returns the response and what was called on the way.
SearchDocs(store, limit, storeOk, text_results, table_results, ranked, rerankOk) ==
    LET all_results == AllResults(store, text_results, table_results)
    IN IF ~storeOk
       THEN [response |-> HttpError("store error"), made |-> <<>>,
             pool |-> {}, reranked |-> FALSE]
       ELSE IF ~ShouldRerank(all_results)
       THEN [response |-> [status |-> "ok", results |-> <<>>],
             made |-> SearchStoreCalls(store),
             pool |-> all_results, reranked |-> FALSE]
       ELSE IF ~rerankOk
       THEN [response |-> HttpError("reranker error"),
             made |-> SearchStoreCalls(store),
             pool |-> all_results, reranked |-> TRUE]
       ELSE [response |-> [status |-> "ok",
                           results |-> LET top_results == SlicePrefix(ranked, limit)
                                       IN [i \in 1..Len(top_results) |->
                                              SearchHit(top_results[i])]],
             made |-> SearchStoreCalls(store),
             pool |-> all_results, reranked |-> TRUE]

Limits == (0 - 1)..MaxLimit

Search(limit, storeOk, rerankOk) ==
    /\ limit \in Limits
    /\ \E text_results \in QueryPoints(Store, COLLECTION_NAME, TEXT_RECALL_LIMIT),
          table_results \in QueryPoints(Store, TABLES_COLLECTION_NAME, TABLE_RECALL_LIMIT) :
         LET pool == AllResults(Store, text_results, table_results)
         IN \E ranked \in Orders(pool) :
              \* the reranker's answer matters only when it is asked and answers
              /\ (~storeOk \/ pool = {} \/ ~rerankOk)
                    => ranked = CHOOSE q \in Orders(pool) : TRUE
              /\ (~storeOk \/ pool = {}) => rerankOk
              /\ last' = [op |-> "search", limit |-> limit, storeOk |-> storeOk]
                         @@ SearchDocs(Store, limit, storeOk, text_results,
                                       table_results, ranked, rerankOk)
    /\ UNCHANGED <<HAS_LLAMAINDEX, exists, points, nextId, nextGroup, started,
                   dirs, fs, calls, redis>>

(***************************************************************************)
(* Delete, reset, stats                                                    *)
(***************************************************************************)
\* the store calls delete_package makes, in order
DeleteStoreCalls(store) ==
    <<"exists_text">>
    \o (IF store.exists[COLLECTION_NAME] THEN <<"delete_text">> ELSE <<>>)
    \o <<"exists_tables">>
    \o (IF store.exists[TABLES_COLLECTION_NAME] THEN <<"delete_tables">> ELSE <<>>)

\* delete_package: the store after the calls made before `failing` raises
DeletePackage_TablesOnly(store, target_id, failing) ==
    IF "delete_tables" \in Range(Before(DeleteStoreCalls(store), failing))
    THEN DeleteByGroup(store, TABLES_COLLECTION_NAME, target_id) ELSE store
DeletePackage(store, target_id, failing) ==
    LET made == Range(Before(DeleteStoreCalls(store), failing))
        s1 == IF "delete_text" \in made
              THEN DeleteByGroup(store, COLLECTION_NAME, target_id) ELSE store
        s2 == IF "delete_tables" \in made
              THEN DeleteByGroup(s1, TABLES_COLLECTION_NAME, target_id) ELSE s1
    IN s2

Delete(target_id, failing) ==
    /\ target_id \in GroupIds
    /\ failing \in {"none"} \cup Range(DeleteStoreCalls(Store))
    /\ LET after == DeletePackage(Store, target_id, failing)
       IN /\ exists' = after.exists
          /\ points' = after.points
    /\ last' = [op |-> "delete", target_id |-> target_id,
                response |-> IF failing = "none"
                             THEN [status |-> "deleted", target_id |-> target_id]
                             ELSE HttpError("store error"),
                removed |-> Cardinality(UNION {points[c] : c \in Collections})
                            - Cardinality(UNION {DeletePackage(Store, target_id, failing).points[c] :
                                                    c \in Collections})]
    /\ UNCHANGED <<HAS_LLAMAINDEX, nextId, nextGroup, started, dirs, fs, calls, redis>>

\* one step of reset_database: a try block and the report entry it appends
ResetStep(ok, done, skipped) == IF ok THEN done ELSE skipped

\* `report` of reset_database: ok1, ok2, ok3 tell which of the three calls answer
ResetReport(ok1, ok2, ok3) ==
    << ResetStep(ok1, "Qdrant text collection deleted", "Qdrant text skipped"),
       ResetStep(ok2, "Qdrant tables collection deleted", "Qdrant tables skipped"),
       ResetStep(ok3, "Redis memory flushed", "Redis failed") >>

\* " | ".join(report), as the sequence of entries and separators
RECURSIVE Join(_, _)
Join(report, sep) ==
    IF Len(report) <= 1 THEN report
    ELSE <<Head(report), sep>> \o Join(Tail(report), sep)

\* the collections after the two delete_collection steps of reset_database
ResetStore_StopAtFailure(store, ok1, ok2) ==
    IF ~ok1 THEN store
    ELSE IF ok2
    THEN DeleteCollection(DeleteCollection(store, COLLECTION_NAME), TABLES_COLLECTION_NAME)
    ELSE DeleteCollection(store, COLLECTION_NAME)
ResetStore_TablesOnly(store, ok1, ok2) ==
    IF ok2 THEN DeleteCollection(store, TABLES_COLLECTION_NAME) ELSE store
ResetStore(store, ok1, ok2) ==
    LET s1 == IF ok1 THEN DeleteCollection(store, COLLECTION_NAME) ELSE store
    IN IF ok2 THEN DeleteCollection(s1, TABLES_COLLECTION_NAME) ELSE s1

Reset(ok1, ok2, ok3) ==
    /\ LET after == ResetStore(Store, ok1, ok2)
       IN /\ exists' = after.exists
          /\ points' = after.points
    /\ redis' = IF ok3 THEN FALSE ELSE redis
    /\ last' = [op |-> "reset",
                response |-> [status |-> "success",
                              details |-> Join(ResetReport(ok1, ok2, ok3), " | ")],
                answered |-> <<ok1, ok2, ok3>>,
                dropped |-> Cardinality(UNION {points[c] : c \in Collections})]
    /\ UNCHANGED <<HAS_LLAMAINDEX, nextId, nextGroup, started, dirs, fs, calls>>

\* stats["collections"][...] of get_stats for one collection
CollectionStats(store, coll) ==
    IF store.exists[coll]
    THEN [name |-> coll, points_count |-> Cardinality(store.points[coll]),
          status |-> "active"]
    ELSE [status |-> "not_created"]

Stats(storeOk) ==
    /\ last' = [op |-> "stats",
                response |-> IF storeOk
                             THEN [status |-> "ok",
                                   text |-> CollectionStats(Store, COLLECTION_NAME),
                                   tables |-> CollectionStats(Store, TABLES_COLLECTION_NAME)]
                             ELSE HttpError("store error")]
    /\ UNCHANGED <<HAS_LLAMAINDEX, exists, points, nextId, nextGroup, started,
                   dirs, fs, calls, redis>>

(***************************************************************************)
(* Query classifier (analyze_query).  A character outside ASCII is written *)
(* as its code point: "u5BF9" "u6BD4" is the word dui-bi (compare).        *)
(***************************************************************************)
comparison_keywords ==
    << <<"u5BF9", "u6BD4">>,
       <<"u5DEE", "u5F02">>,
       <<"u53D8", "u5316">>,
       <<"v", "s">>,
       <<"u533A", "u522B">> >>
aggregation_keywords ==
    << <<"u603B", "u8BA1">>,
       <<"u7EDF", "u8BA1">>,
       <<"u6C47", "u603B">>,
       <<"u5E73", "u5747">>,
       <<"u6C42", "u548C">> >>
multi_year_keywords ==
    << <<"2", "0", "2", "3">>,
       <<"2", "0", "2", "4">>,
       <<"2", "0", "2", "2">>,
       <<"2", "0", "2", "5">>,
       <<"u5386", "u5E74">>,
       <<"u9010", "u5E74">> >>
table_keywords ==
    << <<"u8868", "u683C">>,
       <<"e", "x", "c", "e", "l">>,
       <<"u9644", "u4EF6">>,
       <<"s", "h", "e", "e", "t">>,
       <<"u660E", "u7EC6">> >>
calculation_keywords ==
    << <<"u8BA1", "u7B97">>,
       <<"u6FC0", "u52B1">>,
       <<"u63D0", "u6210">>,
       <<"u91D1", "u989D">>,
       <<"u8D39", "u7528">>,
       <<"u5408", "u8BA1">> >>

\* the years the complex branch looks for, in the order it looks for them
YearTokens ==
    << <<"2", "0", "2", "2">>, <<"2", "0", "2", "3">>,
       <<"2", "0", "2", "4">>, <<"2", "0", "2", "5">> >>
YearSuffix == <<"u5E74">>                 \* nian (year)
EveryYear == <<"u5386", "u5E74">>         \* li-nian (over the years)
YearByYear == <<"u9010", "u5E74">>        \* zhu-nian (year by year)
ListSeparator == "u3001"                  \* the enumeration comma

\* any(kw in query for kw in keywords)
AnyIn(keywords, query) == \E i \in 1..Len(keywords) : Contains(query, keywords[i])

\* the if/elif chain of analyze_query
Branch_TableFirst(has_comparison, has_multi_year, has_table, has_aggregation, has_calculation, has_separator) ==
    IF has_table THEN "table"
    ELSE IF has_comparison /\ has_multi_year THEN "complex"
    ELSE IF has_aggregation \/ (has_calculation /\ has_separator) THEN "aggregation"
    ELSE "simple"
Branch(has_comparison, has_multi_year, has_table, has_aggregation, has_calculation, has_separator) ==
    IF has_comparison /\ has_multi_year THEN "complex"
    ELSE IF has_table THEN "table"
    ELSE IF has_aggregation \/ (has_calculation /\ has_separator) THEN "aggregation"
    ELSE "simple"

\* base_query after the loop over years_found
RECURSIVE BaseQuery_YearsOnly(_, _)
BaseQuery_YearsOnly(base_query, years_found) ==
    IF years_found = <<>> THEN base_query
    ELSE BaseQuery_YearsOnly(Remove(base_query, Head(years_found)), Tail(years_found))
RECURSIVE BaseQuery(_, _)
BaseQuery(base_query, years_found) ==
    IF years_found = <<>> THEN base_query
    ELSE BaseQuery(Remove(Remove(Remove(base_query, Head(years_found)), EveryYear),
                          YearByYear),
                   Tail(years_found))

NotEmpty(q) == q # <<>>

\* analyze_query: the analysis dict returned for request.query
AnalyzeQuery(request_query) ==
    LET query == Lower(request_query)
        has_comparison == AnyIn(comparison_keywords, query)
        has_aggregation == AnyIn(aggregation_keywords, query)
        has_multi_year == AnyIn(multi_year_keywords, query)
        has_table == AnyIn(table_keywords, query)
        has_calculation == AnyIn(calculation_keywords, query)
        branch == Branch(has_comparison, has_multi_year, has_table, has_aggregation,
                         has_calculation, Contains(query, <<ListSeparator>>))
        years_found == SelectSeq(YearTokens, LAMBDA year : Contains(query, year))
        base_query == BaseQuery(request_query, years_found)
    IN CASE branch = "complex" ->
              [query_type |-> "complex",
               sub_queries |-> [i \in 1..Len(years_found) |->
                                  ReplaceDoubleSpace(years_found[i] \o YearSuffix
                                                     \o Strip(base_query))],
               required_tools |-> <<"search", "compare">>,
               reasoning |-> "cross-year comparison: retrieve each year separately",
               suggested_approach |-> "parallel"]
         [] branch = "table" ->
              [query_type |-> "table",
               sub_queries |-> <<>>,
               required_tools |-> <<"search", "extract_table">>,
               reasoning |-> "table lookup: the tables collection comes first",
               suggested_approach |-> "single_step"]
         [] branch = "aggregation" ->
              [query_type |-> "aggregation",
               sub_queries |-> IF Contains(request_query, <<ListSeparator>>)
                               THEN LET parts == Split(request_query, ListSeparator)
                                    IN SelectSeq([i \in 1..Len(parts) |-> Strip(parts[i])],
                                                 NotEmpty)
                               ELSE <<>>,
               required_tools |-> <<"search", "calculate">>,
               reasoning |-> "aggregation or calculation: retrieve step by step",
               suggested_approach |-> "multi_step"]
         [] OTHER ->
              [query_type |-> "simple",
               sub_queries |-> <<>>,
               required_tools |-> <<"search">>,
               reasoning |-> "simple query: search text and tables together",
               suggested_approach |-> "single_step"]

\* the words a request's query text is put together from
Compare == <<"u5BF9", "u6BD4">>
Versus == <<"V", "S">>
Year2023 == <<"2", "0", "2", "3">>
Year2024 == <<"2", "0", "2", "4">>
TableWord == <<"u8868", "u683C">>
TotalWord == <<"u603B", "u8BA1">>
FeeWord == <<"u8D39", "u7528">>
TrafficWord == <<"u6D41", "u91CF">>
Pieces == {Compare, Versus, Year2023, Year2024, EveryYear, TableWord, TotalWord,
           FeeWord, <<ListSeparator>>, <<" ">>, TrafficWord}

Analyze(pieces) ==
    /\ last.op = "none"     \* one request in a behaviour: the handler keeps no state
    /\ last' = [op |-> "analyze_query", pieces |-> pieces,
                analysis |-> AnalyzeQuery(Concat(pieces))]
    /\ UNCHANGED <<HAS_LLAMAINDEX, exists, points, nextId, nextGroup, started,
                   dirs, fs, calls, redis>>

(***************************************************************************)
(* The service                                                             *)
(***************************************************************************)
Slots == 1..MaxCalls

Uploads ==
    [filename : {PlainName}, members : {{}}]
    \cup [filename : {ZipName}, members : {{}, {<<"a">>, <<"b">>}, {HiddenName, <<"b">>}}]

\* The uploads drawn where ingest runs beside search, delete and reset: single
\* documents
ServiceUploads == [filename : {PlainName}, members : {{}}]

Init ==
    /\ HAS_LLAMAINDEX \in BOOLEAN
    /\ exists \in {[c \in Collections |-> b] : b \in BOOLEAN}
    /\ points = [c \in Collections |-> {}]
    /\ nextId = 0
    /\ nextGroup = 0
    /\ started = 0
    /\ dirs = {}
    /\ fs = {}
    /\ calls = [c \in Slots |-> Idle]
    /\ redis = TRUE
    /\ last = [op |-> "none"]

\* The whole service, one ingest request in flight at a time
Next ==
    \/ \E package_id \in PackageIds \cup {None}, upload \in ServiceUploads :
          IngestStart(1, package_id, upload)
    \/ \E zipOk \in BOOLEAN : IngestRead(1, zipOk)
    \/ \E ext \in ServiceOutcomes(HAS_LLAMAINDEX) : IngestFile(1, ext)
    \/ \E limit \in Limits, storeOk \in BOOLEAN, rerankOk \in BOOLEAN :
          Search(limit, storeOk, rerankOk)
    \/ \E target_id \in GroupIds, failing \in {"none", "exists_text", "delete_text",
                                               "exists_tables", "delete_tables"} :
          Delete(target_id, failing)
    \/ \E ok1 \in BOOLEAN, ok2 \in BOOLEAN, ok3 \in BOOLEAN : Reset(ok1, ok2, ok3)
    \/ \E storeOk \in BOOLEAN : Stats(storeOk)

Spec == Init /\ [][Next]_vars

\* The classifier alone, over every query text of up to MaxPieces words
NextAnalyze == \E pieces \in SeqsUpTo(Pieces, MaxPieces) : Analyze(pieces)

SpecAnalyze == Init /\ [][NextAnalyze]_vars

\* One ingest request, over every upload and every answer of the collaborators
NextIngest ==
    \/ \E package_id \in PackageIds \cup {None}, upload \in Uploads :
          started = 0 /\ IngestStart(1, package_id, upload)
    \/ \E zipOk \in BOOLEAN : IngestRead(1, zipOk)
    \/ \E ext \in ExtOutcomes(HAS_LLAMAINDEX) : IngestFile(1, ext)

SpecIngest == Init /\ [][NextIngest]_vars

\* The uploads and answers drawn where two ingest requests run side by side:
\* a single document or an archive of two, each file parsed to one unit of
\* prose or not parsed at all
ConcurrentUploads ==
    [filename : {PlainName}, members : {{}}]
    \cup [filename : {ZipName}, members : {{<<"a">>, <<"b">>}}]

ConcurrentOutcomes(llama) ==
    {e \in ServiceOutcomes(llama) :
        e.parse = "ok" =>
            IF e.structural = "ok"
            THEN e.base_nodes = <<ProseText>> /\ e.objects = <<>>
            ELSE e.chunks = <<ProseText>>}

\* Up to MaxCalls ingest requests in flight, interleaving at their awaits
NextConcurrent ==
    \/ \E c \in Slots, package_id \in PackageIds \cup {None}, upload \in ConcurrentUploads :
          IngestStart(c, package_id, upload)
    \/ \E c \in Slots, zipOk \in BOOLEAN : IngestRead(c, zipOk)
    \/ \E c \in Slots, ext \in ConcurrentOutcomes(HAS_LLAMAINDEX) : IngestFile(c, ext)

SpecConcurrent == Init /\ [][NextConcurrent]_vars

(***************************************************************************)
(* Properties                                                              *)
(***************************************************************************)
AllPoints == UNION {points[c] : c \in Collections}

IngestReturned ==
    last.op = "ingest" /\ last.done /\ last.response.status \in {"error", "success"}

\* C1. Partition exclusivity: a point whose chunk_type is "table" is stored in
\* the tables collection and never in the text collection, and a point whose
\* chunk_type is "text" is stored in the text collection and never in the
\* tables collection.
PartitionExclusivity ==
    \A c \in Collections : \A p \in points[c] :
        /\ p.chunk_type = "table" => c = TABLES_COLLECTION_NAME
        /\ p.chunk_type = "text" => c = COLLECTION_NAME

DeleteReturned == last.op = "delete" /\ last.response.status = "deleted"

\* C2. Delete lifecycle: when delete(X) has returned "deleted", no point with
\* group_id X is left in either collection; a search that runs next returns no
\* hit whose metadata group_id is X; and a collection that did not exist before
\* the delete is left as it was (not created, not an error).
DeleteLifecycle ==
    /\ [](DeleteReturned => \A p \in AllPoints : p.group_id # last.target_id)
    /\ [][(DeleteReturned /\ last'.op = "search" /\ last'.response.status = "ok")
            => \A i \in 1..Len(last'.response.results) :
                  last'.response.results[i].metadata.group_id # last.target_id]_vars
    /\ [][(last'.op = "delete" /\ last'.response.status = "deleted")
            => \A c \in Collections :
                  ~exists[c] => (~exists'[c] /\ points'[c] = points[c])]_vars

DeleteLifecycleWitness ==
    /\ DeleteReturned
    /\ last.removed > 0
    /\ AllPoints # {}
    /\ ~exists[TABLES_COLLECTION_NAME]

ResetReported(i, entry) == last.op = "reset" /\ last.response.details[2 * i - 1] = entry

BothDropsReported ==
    /\ ResetReported(1, "Qdrant text collection deleted")
    /\ ResetReported(2, "Qdrant tables collection deleted")

\* C3 as stated. After reset() returns, both collections hold no points.
ResetEmptiesStore == last.op = "reset" => AllPoints = {}

\* C3, amended. After reset() returns with both drop steps reported as deleted,
\* neither collection exists or holds a point, stats run next reports no
\* collection as created, and a search run next does not invoke the reranker
\* and, unless the store fails it, returns an empty list.
ResetLifecycle ==
    /\ [](BothDropsReported => (AllPoints = {} /\ \A c \in Collections : ~exists[c]))
    /\ [][(BothDropsReported /\ last'.op = "search")
            => /\ ~last'.reranked
               /\ \/ last'.response = [status |-> "ok", results |-> <<>>]
                  \/ last'.response = HttpError("store error")]_vars
    /\ [][(BothDropsReported /\ last'.op = "stats" /\ last'.response.status = "ok")
            => /\ last'.response.text = [status |-> "not_created"]
               /\ last'.response.tables = [status |-> "not_created"]]_vars

ResetLifecycleWitness == BothDropsReported /\ last.dropped > 0

\* C4. Reset step independence: every reset() returns status "success" with a
\* report of three entries, one per step; the entry of a step tells whether that
\* step's call answered; and a step whose call answers takes effect whichever of
\* the other steps fail.
ResetStepIndependence ==
    last.op = "reset" =>
        /\ last.response.status = "success"
        /\ Len(last.response.details) = 5
        /\ last.response.details[2] = " | " /\ last.response.details[4] = " | "
        /\ last.answered[1] <=> ResetReported(1, "Qdrant text collection deleted")
        /\ last.answered[2] <=> ResetReported(2, "Qdrant tables collection deleted")
        /\ last.answered[3] <=> ResetReported(3, "Redis memory flushed")
        /\ last.answered[1] => (~exists[COLLECTION_NAME] /\ points[COLLECTION_NAME] = {})
        /\ last.answered[2] =>
              (~exists[TABLES_COLLECTION_NAME] /\ points[TABLES_COLLECTION_NAME] = {})
        /\ last.answered[3] => ~redis

ResetStepIndependenceWitness ==
    /\ last.op = "reset"
    /\ last.answered = <<FALSE, TRUE, TRUE>>
    /\ last.dropped > 0

SearchReturned == last.op = "search" /\ last.response.status = "ok"

\* C5 as stated. For every integer limit, search returns at most limit hits,
\* and exactly n hits when the merged pool holds n < limit candidates.
RerankBound ==
    SearchReturned =>
        /\ Len(last.response.results) <= last.limit
        /\ Cardinality(last.pool) < last.limit
              => Len(last.response.results) = Cardinality(last.pool)

\* C5, amended. For every limit >= 0, search returns at most limit hits, and
\* exactly n hits when the merged pool holds n < limit candidates.
RerankBoundNonNegative ==
    (SearchReturned /\ last.limit >= 0) =>
        /\ Len(last.response.results) <= last.limit
        /\ Cardinality(last.pool) < last.limit
              => Len(last.response.results) = Cardinality(last.pool)

RerankBoundWitness ==
    /\ SearchReturned
    /\ last.limit >= 1
    /\ Cardinality(last.pool) > last.limit
    /\ Len(last.response.results) = last.limit

\* C6. Empty-pool short-circuit: the reranker is invoked only on a non-empty
\* pool; with an empty pool a search the store answers returns an empty list;
\* and a search the store answers queries exactly the collections that exist.
EmptyPoolShortCircuit ==
    last.op = "search" =>
        /\ last.reranked => last.pool # {}
        /\ (last.pool = {} /\ last.response # HttpError("store error"))
              => last.response = [status |-> "ok", results |-> <<>>]
        /\ last.response # HttpError("store error")
              => /\ "query_text" \in Range(last.made) <=> exists[COLLECTION_NAME]
                 /\ "query_tables" \in Range(last.made) <=> exists[TABLES_COLLECTION_NAME]

EmptyPoolShortCircuitWitness ==
    /\ SearchReturned
    /\ last.reranked
    /\ exists[COLLECTION_NAME] /\ ~exists[TABLES_COLLECTION_NAME]
    /\ last.made = <<"exists_text", "query_text", "exists_tables">>

ParseFailed(t) == t.parse \in {"raise", "empty"}

\* C7. Per-file failure isolation: the response of an ingest call holds one
\* entry per file, in the order the files were processed; a file whose parse
\* raised or came back empty has a failed entry; and every file was parsed
\* whatever happened to the files before it, its points being in the store.
PerFileIsolation ==
    IngestReturned =>
        LET pf == last.response.processed_files
        IN /\ Len(pf) = Len(last.files)
           /\ Len(last.trace) = Len(last.files)
           /\ \A i \in 1..Len(pf) :
                /\ pf[i].filename = Basename(last.files[i])
                /\ ParseFailed(last.trace[i]) <=>
                      (pf[i].status = "failed"
                       /\ pf[i].error \in {"parse error", "No documents parsed"})
                /\ \A id \in last.trace[i].ids :
                      \E p \in AllPoints : p.id = id /\ p.filename = pf[i].filename

PerFileIsolationWitness ==
    /\ IngestReturned
    /\ Len(last.files) = 2
    /\ ParseFailed(last.trace[1])
    /\ last.trace[2].ids # {}
    /\ last.response.processed_files[2].status = "success"

Persisted(trace) == UNION {trace[i].ids : i \in 1..Len(trace)}

\* C8. Zero-persisted batch: an ingest call returns status "error" exactly when
\* it persisted no point, and "success" only when it persisted at least one.
ZeroPersistedBatch ==
    IngestReturned => (last.response.status = "error" <=> Persisted(last.trace) = {})

Classified == last.op = "analyze_query"

HasWord(words) == Range(last.pieces) \cap words # {}

\* C9. Classifier precedence: the plan is that of the first branch that matches,
\* in the order comparison word and multi-year signal (complex, parallel,
\* search + compare), table word (table, search + extract_table), aggregation
\* word or calculation word with the list separator (aggregation, multi_step,
\* search + calculate), else simple (single_step, search).
ClassifierPrecedence ==
    Classified =>
        LET a == last.analysis
            tools == Range(a.required_tools)
        IN IF HasWord({Compare, Versus}) /\ HasWord({Year2023, Year2024, EveryYear})
           THEN a.query_type = "complex" /\ a.suggested_approach = "parallel"
                /\ tools = {"search", "compare"}
           ELSE IF HasWord({TableWord})
           THEN a.query_type = "table" /\ tools = {"search", "extract_table"}
           ELSE IF HasWord({TotalWord}) \/ (HasWord({FeeWord}) /\ HasWord({<<ListSeparator>>}))
           THEN a.query_type = "aggregation" /\ a.suggested_approach = "multi_step"
                /\ tools = {"search", "calculate"}
           ELSE a.query_type = "simple" /\ a.suggested_approach = "single_step"
                /\ tools = {"search"}

ClassifierPrecedenceWitness ==
    /\ Classified
    /\ HasWord({Versus}) /\ HasWord({Year2024}) /\ HasWord({TableWord})
    /\ last.analysis.query_type = "complex"

\* the years of the query, ascending, and the query less its years and phrases
YearsOf(pieces) == SelectSeq(<<Year2023, Year2024>>, LAMBDA y : y \in Range(pieces))
Remainder(pieces) ==
    Concat(SelectSeq(pieces, LAMBDA w : w \notin {Year2023, Year2024, EveryYear, YearByYear}))

\* C10 as stated. A complex query has one sub-query per year in it, and the one
\* for year Y is Y, a space, and the query less its years and year phrases.
SubQueryPerYear ==
    (Classified /\ last.analysis.query_type = "complex") =>
        LET sub == last.analysis.sub_queries
            years == YearsOf(last.pieces)
        IN /\ Len(sub) = Len(years)
           /\ \A i \in 1..Len(sub) : sub[i] = years[i] \o <<" ">> \o Remainder(last.pieces)

\* C10, amended. A complex query has one sub-query per distinct year in it, in
\* ascending order of the years, and the one for year Y is Y, the year suffix
\* (nian), and the query less its years and year phrases, trimmed and with
\* every pair of spaces replaced by one.
SubQueryPerYearSuffix ==
    (Classified /\ last.analysis.query_type = "complex") =>
        LET sub == last.analysis.sub_queries
            years == YearsOf(last.pieces)
        IN /\ Len(sub) = Len(years)
           /\ \A i \in 1..Len(sub) :
                sub[i] = years[i] \o YearSuffix
                         \o ReplaceDoubleSpace(Strip(Remainder(last.pieces)))

SubQueryPerYearWitness ==
    /\ Classified
    /\ last.analysis.query_type = "complex"
    /\ Len(last.analysis.sub_queries) = 2
    /\ HasWord({Compare})

IngestEnded == last.op = "ingest" /\ last.done

\* C11. Store unavailability is surfaced: when the store refuses an upsert
\* during an ingest call, the call ends as a request failure carrying the
\* store's message (no per-file failed entry, no "no documents parsed"
\* response, no success); when the store refuses a search's call, the search
\* ends as a request failure carrying the store's message.
StoreFailureSurfaced ==
    /\ (IngestEnded /\ \E i \in 1..Len(last.trace) : last.trace[i].upsert_failed)
          => last.response = HttpError("store error")
    /\ (last.op = "search" /\ ~last.storeOk)
          => last.response = HttpError("store error")

\* C12. Concurrent ingest isolation: a call that interleaves with another one
\* ends as it would alone: the directory it created is there when it writes
\* its upload, and every file it lists is there when its parse starts, so no
\* call is failed and no file is lost by what another call did.
ConcurrentIsolation ==
    IngestEnded =>
        /\ last.response # HttpError("No such file or directory")
        /\ \A i \in 1..Len(last.trace) : last.trace[i].readable

\* C13. Structural-to-heuristic fallback: for every parsed file whose
\* structural mode raised or returned neither node nor object (the store
\* taking every write), the file's result is a success in mode "fallback", its
\* entry in the response is a success, and the points persisted for it are the
\* units of the heuristic splitter.
StructuralFallback ==
    IngestReturned =>
        \A i \in 1..Len(last.trace) :
            LET t == last.trace[i]
            IN (t.structural \in {"raise", "empty"} /\ ~t.upsert_failed) =>
                  /\ t.result.success
                  /\ t.result.mode = "fallback"
                  /\ last.response.processed_files[i].status = "success"
                  /\ Cardinality(t.ids) = t.result.total_chunks

\* C14. Zero-unit file is a soft warning: in the response of an ingest call
\* only a file whose external parse raised has a failed entry with an error; a
\* file whose parse raised nothing and that yields no unit (an empty parse
\* result, or blank units only) has no failed entry.
ZeroUnitSoftWarning ==
    IngestReturned =>
        \A i \in 1..Len(last.trace) :
            (last.trace[i].parse # "raise" /\ last.trace[i].ids = {}
             /\ ~last.trace[i].upsert_failed)
                => last.response.processed_files[i].status # "failed"

\* the points a finished ingest call persisted in heuristic mode
FallbackPoints ==
    {p \in AllPoints :
        \E i \in 1..Len(last.trace) :
            /\ p.id \in last.trace[i].ids
            /\ last.trace[i].result.success
            /\ last.trace[i].result.mode = "fallback"}

HasSeparatorRow(text) ==
    \E i \in 1..Len(text) :
        \/ i + 3 <= Len(text) /\ SubSeq(text, i, i + 3) = <<"|", "-", "-", "-">>
        \/ i + 4 <= Len(text) /\ SubSeq(text, i, i + 4) = <<"|", " ", "=", "=", "=">>

\* C15. Unit classification in heuristic mode: a point persisted in heuristic
\* mode has chunk kind "table" if its text holds a pipe and a separator-row
\* marker ("|---" or "| ===") and "text" if not; two such points with the same
\* text have the same kind; the stored is_table flag agrees with the kind, and
\* so does the content_type search derives from it.
HeuristicClassification ==
    IngestReturned =>
        \A p \in FallbackPoints :
            /\ p.chunk_type =
                  (IF "|" \in Range(p.document) /\ HasSeparatorRow(p.document)
                   THEN "table" ELSE "text")
            /\ \A q \in FallbackPoints :
                  q.document = p.document => q.chunk_type = p.chunk_type
            /\ p.is_table = (IF p.chunk_type = "table" THEN "True" ELSE "False")
            /\ \A source \in {"text", "table"} :
                  SearchHit(Candidate(p, source)).content_type = p.chunk_type

HeuristicClassificationWitness ==
    /\ IngestReturned
    /\ \E p \in FallbackPoints, q \in FallbackPoints :
          /\ p.chunk_type = "table"
          /\ q.chunk_type = "text" /\ "|" \in Range(q.document)

\* the number of points of kind `kind` among those with an id in `ids`
PersistedOfKind(ids, kind) ==
    Cardinality({p \in AllPoints : p.id \in ids /\ p.chunk_type = kind})

\* C16. Reported counts match persisted units: for every file reported as a
\* success, text_nodes is the number of points persisted for it with chunk kind
\* "text" and table_objects the number with chunk kind "table", their sum being
\* the file's total_chunks; and the totals of a success response are the
\* numbers of points of each kind the call persisted.
CountsMatchPersisted ==
    IngestReturned =>
        /\ \A i \in 1..Len(last.trace) :
              LET t == last.trace[i]
                  entry == last.response.processed_files[i]
              IN entry.status = "success" =>
                    /\ entry.text_nodes = PersistedOfKind(t.ids, "text")
                    /\ entry.table_objects = PersistedOfKind(t.ids, "table")
                    /\ entry.text_nodes + entry.table_objects = t.result.total_chunks
        /\ last.response.status = "success" =>
              /\ last.response.total_text_nodes
                    = PersistedOfKind(Persisted(last.trace), "text")
              /\ last.response.total_table_objects
                    = PersistedOfKind(Persisted(last.trace), "table")

====
